---- MODULE Spec2Model ----
(***************************************************************************)
(* A model of http_connector.py (HttpConnector): initialize, the verb      *)
(* handlers and the connectivity test, the single request dispatch        *)
(* (_make_http_call) and the response classifier (_process_response).      *)
(*                                                                         *)
(* Text is modelled as sequences: URLs, header texts and bodies as         *)
(* sequences of tokens ("/", "{", "}" are tokens of their own), IP         *)
(* addresses and content-type values as sequences of characters.  The      *)
(* interpreter is Python 3, where _handle_py_ver_compat_for_input_str      *)
(* returns its argument unchanged (line 56: the branch needs version < 3). *)
(***************************************************************************)
EXTENDS Integers, Sequences, FiniteSets, TLC

VARIABLES
    pc,             \* "constructed" | "init_failed" | "ready" | "waiting" | "done"
    config,         \* the asset configuration get_config() returns
    dns,            \* the resolver's answer for the base URL's hostname
    self,           \* the connector's fields (_base_url, _test_path, ...)
    init_ret,       \* what initialize returned
    init_msg,       \* the status message initialize set
    action_id,      \* get_action_identifier()
    param,          \* the parameter record of the running action
    action_result,  \* the ActionResult of the running action
    ret,            \* what handle_action returned ("raised": an exception escaped)
    sent,           \* the HTTP requests issued in this invocation, in order
    response,       \* the response the request received, if any
    classified,     \* how many times _process_response ran in this invocation
    branch          \* the branch _process_response took

vars == <<pc, config, dns, self, init_ret, init_msg, action_id, param, action_result,
          ret, sent, response, classified, branch>>

\* ------------------------------------------------------------------ values

\* Python's None; an absent configuration or parameter key
None == [k |-> "None"]
Absent == [k |-> "absent"]

APP_SUCCESS == "success"
APP_ERROR == "error"
RAISED == "raised"

Str(s) == [k |-> "str", v |-> s]
Num(s) == [k |-> "num", v |-> s]
Bool(s) == [k |-> "bool", v |-> s]
Dict(f) == [k |-> "dict", v |-> f]
List(s) == [k |-> "list", v |-> s]
\* a configuration value that is not a string (a list, say)
NonString == [k |-> "list", v |-> <<>>]

StartsWith(s, p) == Len(s) >= Len(p) /\ SubSeq(s, 1, Len(p)) = p
\* Python's `sub in s` on strings
Contains(s, sub) == \E i \in 0..(Len(s) - Len(sub)) : SubSeq(s, i + 1, i + Len(sub)) = sub

RECURSIVE LStrip(_, _)
LStrip(s, c) == IF s # <<>> /\ Head(s) = c THEN LStrip(Tail(s), c) ELSE s
RECURSIVE RStrip(_, _)
RStrip(s, c) == IF s # <<>> /\ s[Len(s)] = c THEN RStrip(SubSeq(s, 1, Len(s) - 1), c) ELSE s
\* Python's s.strip(c)
Strip(s, c) == RStrip(LStrip(s, c), c)

\* ------------------------------------------------------------------ urlparse, the resolver

\* urlparse on a token sequence: "http:" "/" "/" host [port] [path...].
\* An unbalanced "[" in the network location raises ValueError.
UrlParseRaises(u) == \E i \in 1..Len(u) : u[i] = "["
UrlScheme(u) == IF Len(u) >= 1 /\ u[1] \in {"http:", "https:"} THEN <<"http">> ELSE <<>>
UrlHostname(u) ==
    IF UrlScheme(u) # <<>> /\ Len(u) >= 4 /\ u[2] = "/" /\ u[3] = "/" /\ u[4] # "/"
    THEN <<u[4]>> ELSE <<>>

Unresolvable == <<"?">>
Addr127001 == <<"1", "2", "7", ".", "0", ".", "0", ".", "1">>
Addr127882 == <<"1", "2", "7", ".", "8", ".", "8", ".", "2">>
Addr101270 == <<"1", "0", ".", "1", "2", "7", ".", "0", ".", "1">>
Addr12700 == <<"1", "2", ".", "7", ".", "0", ".", "1">>
Addresses == {Addr127001, Addr127882, Addr101270, Addr12700}

\* socket.gethostbyname: a dotted quad is its own address, a name gets the
\* resolver's answer, and anything else (here a quad followed by a blank) fails.
gethostbyname(addr, answer) ==
    CASE addr = <<"127.0.0.1">> -> Addr127001
      [] addr = <<"a">> -> answer
      [] OTHER -> Unresolvable

\* socket.inet_aton on a str: accepts a dotted quad, also one followed by a blank
inet_aton_ok(addr) == addr \in {<<"127.0.0.1">>, <<"127.0.0.1 ">>}

\* lines 137-147: the address the loopback check looks at
Unpacked(addr, answer) ==
    IF gethostbyname(addr, answer) # Unresolvable
    THEN gethostbyname(addr, answer)
    ELSE IF inet_aton_ok(addr)
         THEN <<>>   \* line 143: inet_aton(packed) on bytes raises TypeError, line 147
         ELSE <<>>   \* line 142 raises, line 147

\* a check against the one address 127.0.0.1 instead of the prefix
IsLoopbackExact(a) == a = Addr127001
\* line 149
IsLoopback(a) == StartsWith(a, <<"1", "2", "7", ".">>)

\* ------------------------------------------------------------------ _get_error_message_from_exception

\* An exception is the sequence of its args (each a text).
UnknownError == <<"Unknown error occurred. Please check the asset configuration and|or action parameters.">>
get_error_message_from_exception(e) ==
    LET code == IF Len(e) > 1 THEN e[1] ELSE <<"Error code unavailable">>
        msg == IF Len(e) > 1 THEN e[2] ELSE IF Len(e) = 1 THEN e[1] ELSE UnknownError
    IN  Str(<<"Error Code: ">> \o code \o <<". Error Message: ">> \o msg)

\* ------------------------------------------------------------------ initialize

\* int(x) of a configuration value: "ok", "ValueError" (a non-numeric string)
\* or "TypeError" (not a string or number)
IntOf(x) ==
    CASE x.k = "str" /\ x.v = <<"30">> -> [r |-> "ok", v |-> 30]
      [] x.k = "str" /\ x.v # <<"30">> -> [r |-> "ValueError", v |-> 0]
      [] OTHER -> [r |-> "TypeError", v |-> 0]

\* lines 39-47: the fields __init__ sets are None, the others do not exist yet
NewSelf == [base_url |-> None, test_path |-> None, timeout |-> None,
            token_name |-> Absent, token |-> Absent, username |-> Absent,
            password |-> Absent]

Get(c, key, default) == IF c[key] = Absent THEN default ELSE c[key]

\* lines 103-108
SelfAfterConfig(c) ==
    [NewSelf EXCEPT
        !.base_url = Str(Strip(c.base_url.v, "/")),
        !.token_name = Get(c, "auth_token_name", Str(<<"ph-auth-token">>)),
        !.token = Get(c, "auth_token", None),
        !.username = Get(c, "username", None),
        !.password = Get(c, "password", Str(<<>>))]

\* lines 110-116: the normalised test path, or None when str.startswith raises
TestPathOf(c) ==
    IF c.test_path.k # "str" THEN None
    ELSE IF StartsWith(c.test_path.v, <<"/">>) THEN c.test_path
    ELSE Str(<<"/">> \o c.test_path.v)

\* A message: the template and the values str.format puts into it
Msg(text) == [text |-> text, args |-> <<>>]
MsgA(text, args) == [text |-> text, args |-> args]
IntV(n) == [k |-> "int", v |-> n]

\* lines 94-152: [ret, msg, self]
initialize(c, answer) ==
    LET s1 == SelfAfterConfig(c)
        tp_bad == c.test_path # Absent /\ c.test_path.k # "str"
        s2 == IF c.test_path = Absent \/ tp_bad THEN s1
              ELSE [s1 EXCEPT !.test_path = TestPathOf(c)]
        to == IntOf(c.timeout)
        s3 == IF c.timeout # Absent /\ to.r = "ok"
              THEN [s2 EXCEPT !.timeout = Num(<<"30">>)] ELSE s2
        url == s1.base_url.v
        host == UrlHostname(url)
    IN  IF tp_bad
        THEN [ret |-> APP_ERROR, msg |-> MsgA("Given endpoint value is invalid: {0}",
                <<get_error_message_from_exception(<<<<"object has no attribute 'startswith'">>>>)>>), self |-> s1]
        ELSE IF c.timeout # Absent /\ to.r = "ValueError"
        THEN [ret |-> APP_ERROR, msg |-> Msg("Given timeout value is not a valid integer"), self |-> s2]
        ELSE IF c.timeout # Absent /\ to.r = "TypeError"
        THEN [ret |-> APP_ERROR, msg |-> MsgA("Given timeout value is invalid: {0}",
                <<get_error_message_from_exception(<<<<"int() argument must be a string or a number">>>>)>>), self |-> s2]
        ELSE IF UrlParseRaises(url)
        THEN [ret |-> RAISED, msg |-> Msg("ValueError"), self |-> s3]
        ELSE IF UrlScheme(url) = <<>> \/ host = <<>>
        THEN [ret |-> APP_ERROR, msg |-> MsgA("Failed to parse URL ({}). Should look like http(s)://location/optional_path",
                <<s1.base_url>>), self |-> s3]
        ELSE IF IsLoopback(Unpacked(host, answer))
        THEN [ret |-> APP_ERROR, msg |-> Msg("Accessing 127.0.0.1 is not allowed"), self |-> s3]
        ELSE [ret |-> APP_SUCCESS, msg |-> Msg(""), self |-> s3]

\* ------------------------------------------------------------------ parsers

Q(w) == <<w>>
\* texts: a JSON lexical token, an XML/HTML tag or a run of characters is one token
T_empty == <<>>
T_err_msg == <<"{", "'error'", ":", "{", "'message'", ":", "'bad token'", "}", "}">>
T_err_str == <<"{", "'error'", ":", "'oops'", "}">>
T_err_nomsg == <<"{", "'error'", ":", "{", "'code'", ":", "7", "}", "}">>
T_ok == <<"{", "'ok'", ":", "true", "}">>
T_list == <<"[", "1", "]">>
T_list_err == <<"[", "'error'", "]">>
T_str == <<"'s'">>
T_str_err == <<"'error'">>
T_num == <<"5">>
T_true == <<"true">>
T_null == <<"null">>
T_xml == <<"<p>", "Not+Found", "\n", "<script>", "js", "</script>", "</p>">>
T_text == <<"hello", "{", "x", "}">>
T_badhtml == <<"<![">>
T_brace == <<"{">>
T_emptyobj == <<"{", "}">>
T_hdr_default == <<"{", "'ph-auth-token'", ":", "'mine'", "}">>
T_hdr_custom == <<"{", "'X-Tok'", ":", "'mine'", "}">>

\* json.loads: [ok, v] (a failure raises an exception with one arg)
JsonLoads(t) ==
    CASE t = T_err_msg -> [ok |-> TRUE, v |-> Dict(Q("error") :> Dict(Q("message") :> Str(Q("bad token"))))]
      [] t = T_err_str -> [ok |-> TRUE, v |-> Dict(Q("error") :> Str(Q("oops")))]
      [] t = T_err_nomsg -> [ok |-> TRUE, v |-> Dict(Q("error") :> Dict(Q("code") :> Num(Q("7"))))]
      [] t = T_ok -> [ok |-> TRUE, v |-> Dict(Q("ok") :> Bool(Q("true")))]
      [] t = T_list -> [ok |-> TRUE, v |-> List(<<Num(Q("1"))>>)]
      [] t = T_list_err -> [ok |-> TRUE, v |-> List(<<Str(Q("error"))>>)]
      [] t = T_str -> [ok |-> TRUE, v |-> Str(Q("s"))]
      [] t = T_str_err -> [ok |-> TRUE, v |-> Str(Q("error"))]
      [] t = T_num -> [ok |-> TRUE, v |-> Num(Q("5"))]
      [] t = T_true -> [ok |-> TRUE, v |-> Bool(Q("true"))]
      [] t = T_null -> [ok |-> TRUE, v |-> None]
      [] t = T_emptyobj -> [ok |-> TRUE, v |-> Dict(<<>>)]
      [] t = T_hdr_default -> [ok |-> TRUE, v |-> Dict(Q("ph-auth-token") :> Str(Q("mine")))]
      [] t = T_hdr_custom -> [ok |-> TRUE, v |-> Dict(Q("X-Tok") :> Str(Q("mine")))]
      [] OTHER -> [ok |-> FALSE, v |-> None]
JsonError == <<Q("Expecting value: line 1 column 1 (char 0)")>>

\* xmltodict.parse: [ok, v] (a failure raises ExpatError with one arg)
XmlParse(t) ==
    CASE t = T_xml -> [ok |-> TRUE, v |-> Dict(Q("p") :> Dict((Q("script") :> Str(Q("js"))) @@ (Q("#text") :> Str(Q("Not+Found")))))]
      [] OTHER -> [ok |-> FALSE, v |-> None]
XmlError == <<Q("syntax error: line 1, column 0")>>

\* BeautifulSoup(text, "html.parser") raises on markup the parser rejects
SoupRaises(t) == t = T_badhtml
Tags == {"<p>", "</p>", "<script>", "</script>"}
\* lines 172-174: soup.text once the script/style/footer/nav elements are extracted
RECURSIVE SoupTextFrom(_, _)
SoupTextFrom(t, inScript) ==
    IF t = <<>> THEN <<>>
    ELSE IF Head(t) = "<script>" THEN SoupTextFrom(Tail(t), TRUE)
    ELSE IF Head(t) = "</script>" THEN SoupTextFrom(Tail(t), FALSE)
    ELSE IF inScript \/ Head(t) \in Tags THEN SoupTextFrom(Tail(t), inScript)
    ELSE <<Head(t)>> \o SoupTextFrom(Tail(t), inScript)
SoupText(t) == SoupTextFrom(t, FALSE)

\* unquote_plus, token by token
UnquoteToken(w) == IF w = "Not+Found" THEN "Not Found" ELSE w
unquote_plus(t) == [i \in 1..Len(t) |-> UnquoteToken(t[i])]

\* text.replace('{', '{{').replace('}', '}}')
RECURSIVE EscapeBraces(_)
EscapeBraces(t) ==
    IF t = <<>> THEN <<>>
    ELSE IF Head(t) \in {"{", "}"} THEN <<Head(t), Head(t)>> \o EscapeBraces(Tail(t))
    ELSE <<Head(t)>> \o EscapeBraces(Tail(t))

\* ------------------------------------------------------------------ responses

\* content-type values, character by character
CT_plain == <<"t", "e", "x", "t", "/", "p", "l", "a", "i", "n">>
CT_xml == <<"t", "e", "x", "t", "/", "x", "m", "l">>
CT_json == <<"a", "p", "p", "l", "i", "c", "a", "t", "i", "o", "n", "/", "j", "s", "o", "n">>
CT_js == <<"t", "e", "x", "t", "/", "j", "a", "v", "a", "s", "c", "r", "i", "p", "t">>
CT_html == <<"t", "e", "x", "t", "/", "h", "t", "m", "l">>
CT_JSON == <<"a", "p", "p", "l", "i", "c", "a", "t", "i", "o", "n", "/", "J", "S", "O", "N">>
CT_HTML == <<"T", "e", "x", "t", "/", "H", "T", "M", "L">>
CT_XML == <<"t", "e", "x", "t", "/", "X", "M", "L">>
CT_xml_json == <<"a", "p", "p", "l", "i", "c", "a", "t", "i", "o", "n", "/", "x", "m", "l", "+", "j", "s", "o", "n">>
W_xml == <<"x", "m", "l">>
W_json == <<"j", "s", "o", "n">>
W_javascript == <<"j", "a", "v", "a", "s", "c", "r", "i", "p", "t">>
W_html == <<"h", "t", "m", "l">>

\* r.headers.get('Content-Type', '')
ContentType(r) ==
    IF Q("Content-Type") \in DOMAIN r.headers.v THEN r.headers.v[Q("Content-Type")].v ELSE <<>>

\* success for 2xx only
InRangeOnly2xx(code) == 200 <= code /\ code < 300
\* 200 <= status_code < 400
InRange(code) == 200 <= code /\ code < 400

\* ------------------------------------------------------------------ the classifier

\* what a _process_* method returns: RetVal(status, parsed), the message it gave
\* action_result.set_status, or RAISED with the exception that escaped
Ok(parsed) == [ret |-> APP_SUCCESS, msg |-> Msg(""), parsed |-> parsed]
Fail(msg, parsed) == [ret |-> APP_ERROR, msg |-> msg, parsed |-> parsed]
Raise(exc) == [ret |-> RAISED, msg |-> Msg(exc), parsed |-> None]

\* lines 159-164
process_empty_reponse(r) ==
    IF InRange(r.status_code) THEN Ok(None)
    ELSE Fail(Msg("Empty response and no information in the header"), None)

Blank == {"\n", " "}
\* lines 175-177: the non-blank lines
CollapseLines(t) == SelectSeq(t, LAMBDA w : w \notin Blank)

\* lines 166-188.  When BeautifulSoup raises, soup is never bound and both
\* return statements (lines 182, 188) raise UnboundLocalError on soup.text.
process_html_response(r) ==
    LET error_text == IF SoupRaises(r.text) THEN Q("Cannot parse error details")
                      ELSE CollapseLines(SoupText(r.text))
    IN  IF SoupRaises(r.text) THEN Raise("UnboundLocalError")
        ELSE IF InRange(r.status_code) THEN Ok(Str(SoupText(r.text)))
        ELSE Fail(MsgA("Status Code: {0}. Data from server:\n{1}\n",
                       <<IntV(r.status_code), Str(EscapeBraces(unquote_plus(error_text)))>>),
                  Str(SoupText(r.text)))

ErrorFromServer == "Error from server. Status Code: {0} Data from server: {1}"

\* line 208: `'error' in resp_json`: "yes", "no" or "TypeError"
HasError(j) ==
    CASE j.k = "dict" -> IF Q("error") \in DOMAIN j.v THEN "yes" ELSE "no"
      [] j.k = "list" -> IF \E i \in 1..Len(j.v) : j.v[i] = Str(Q("error")) THEN "yes" ELSE "no"
      [] j.k = "str" -> IF \E i \in 1..Len(j.v) : j.v[i] = "error" THEN "yes" ELSE "no"
      [] OTHER -> "TypeError"

\* lines 209-214, for a mapping with an 'error' key
ErrorDetail(j) ==
    LET error_field == j.v[Q("error")]
    IN  IF error_field.k = "dict" /\ Q("message") \in DOMAIN error_field.v
        THEN error_field.v[Q("message")]
        ELSE error_field

\* a parse failure that is reported only when the status code is out of range
ParseFailureByStatus(r, text, exc) ==
    IF InRange(r.status_code) THEN Ok(None)
    ELSE Fail(MsgA(text, <<get_error_message_from_exception(exc)>>), None)
\* lines 194-197 and 224-226: RetVal(action_result.set_status(APP_ERROR, ...)), no second value
ParseFailure(r, text, exc) ==
    Fail(MsgA(text, <<get_error_message_from_exception(exc)>>), None)

\* lines 190-218
process_json_response(r) ==
    LET j == JsonLoads(r.text)
    IN  IF ~j.ok THEN ParseFailure(r, "Unable to parse JSON response. Error: {0}", JsonError)
        ELSE IF InRange(r.status_code) THEN Ok(j.v)
        ELSE CASE HasError(j.v) = "TypeError" -> Raise("TypeError")
               [] HasError(j.v) = "no" ->
                    Fail(MsgA(ErrorFromServer, <<IntV(r.status_code), Str(EscapeBraces(r.text))>>), j.v)
               [] HasError(j.v) = "yes" /\ j.v.k # "dict" ->
                    Raise("TypeError")   \* line 209: indexing a list or str by 'error'
               [] OTHER -> Fail(MsgA(ErrorFromServer, <<IntV(r.status_code), ErrorDetail(j.v)>>), j.v)

\* lines 220-234
process_xml_response(r) ==
    LET x == XmlParse(r.text)
    IN  IF ~x.ok THEN ParseFailure(r, "Unable to parse XML response. Error: {0}", XmlError)
        ELSE IF InRange(r.status_code) THEN Ok(x.v)
        ELSE Fail(MsgA(ErrorFromServer, <<IntV(r.status_code), Str(EscapeBraces(r.text))>>), x.v)

\* lines 255-261
process_plain_response(r) ==
    IF InRange(r.status_code) THEN Ok(Str(r.text))
    ELSE Fail(MsgA("Can't process response from server. Status Code: {0} Data from server: {1}",
                   <<IntV(r.status_code), Str(EscapeBraces(r.text))>>), Str(r.text))

\* the order JSON before XML
BranchOfJsonFirst(ct, text) ==
    IF Contains(ct, W_json) \/ Contains(ct, W_javascript) THEN "json"
    ELSE IF Contains(ct, W_xml) THEN "xml"
    ELSE IF Contains(ct, W_html) THEN "html"
    ELSE IF text = <<>> THEN "empty"
    ELSE "plain"
\* lines 243-255: the branch taken for a content-type value and a body
BranchOf(ct, text) ==
    IF Contains(ct, W_xml) THEN "xml"
    ELSE IF Contains(ct, W_json) \/ Contains(ct, W_javascript) THEN "json"
    ELSE IF Contains(ct, W_html) THEN "html"
    ELSE IF text = <<>> THEN "empty"
    ELSE "plain"

\* a result with the name of the branch that produced it
By(name, res) == [ret |-> res.ret, msg |-> res.msg, parsed |-> res.parsed, by |-> name]

\* lines 236-261
process_response(r) ==
    LET b == BranchOf(ContentType(r), r.text)
    IN  CASE b = "xml" -> By("xml", process_xml_response(r))
          [] b = "json" -> By("json", process_json_response(r))
          [] b = "html" -> By("html", process_html_response(r))
          [] b = "empty" -> By("empty", process_empty_reponse(r))
          [] OTHER -> By("plain", process_plain_response(r))

\* ------------------------------------------------------------------ the dispatch

\* a fresh ActionResult: no status set, no data, an empty summary
NewActionResult == [status |-> "unset", message |-> Msg(""), data |-> <<>>, summary |-> Dict(<<>>)]
set_status(ar, status, msg) == [ar EXCEPT !.status = status, !.message = msg]

\* Python truth value of a value
Falsy(x) ==
    CASE x.k \in {"None", "absent"} -> TRUE
      [] x.k \in {"dict"} -> DOMAIN x.v = {}
      [] x.k \in {"str", "list"} -> x.v = <<>>
      [] x.k = "num" -> x.v = Q("0")
      [] x.k = "bool" -> x.v = Q("false")
      [] OTHER -> FALSE

\* lines 319-338: [ret, headers, ar]
get_headers(ar, headers) ==
    IF headers = Absent THEN [ret |-> APP_SUCCESS, headers |-> None, ar |-> ar]
    ELSE IF ~JsonLoads(headers.v).ok
    THEN [ret |-> APP_ERROR, headers |-> None,
          ar |-> set_status(ar, APP_ERROR,
                    MsgA("Failed to parse headers as JSON object. error: {}, headers: {}",
                         <<get_error_message_from_exception(JsonError), headers>>))]
    ELSE [ret |-> APP_SUCCESS, headers |-> JsonLoads(headers.v).v, ar |-> ar]

\* the token always written over the caller's header
InjectTokenAlways(me, h) == Dict((me.token_name.v :> me.token) @@ h.v)
\* lines 269-270, for a mapping h
InjectToken(me, h) ==
    IF me.token_name.v \in DOMAIN h.v THEN h
    ELSE Dict((me.token_name.v :> me.token) @@ h.v)

\* lines 265-272: the auth argument
AuthOf(me) ==
    IF ~Falsy(me.token) THEN None
    ELSE IF ~Falsy(me.username) THEN [k |-> "basic", v |-> <<me.username, me.password>>]
    ELSE None

\* lines 265-270: [raised, headers]
HeadersOf(me, headers) ==
    IF Falsy(me.token) THEN [raised |-> FALSE, headers |-> headers]
    ELSE LET h == IF Falsy(headers) THEN Dict(<<>>) ELSE headers
         IN  CASE h.k = "dict" -> [raised |-> FALSE, headers |-> InjectToken(me, h)]
               [] h.k = "str" /\ Contains(h.v, me.token_name.v) -> [raised |-> FALSE, headers |-> h]
               [] OTHER -> [raised |-> TRUE, headers |-> h]   \* TypeError at line 269 or 270

\* lines 279-288: the request handed to requests.<method>
RequestOf(me, endpoint, method, headers, verify, data) ==
    [method |-> method, url |-> me.base_url.v \o endpoint, auth |-> AuthOf(me),
     data |-> data, verify |-> verify, headers |-> headers, timeout |-> me.timeout]

\* requests rejects headers that are no mapping before it sends anything
Sendable(headers) == Falsy(headers) \/ headers.k = "dict"

ConnectError(e) == MsgA("Error Connecting to server. Details: {0}", <<get_error_message_from_exception(e)>>)

\* the exception swallowed and the call going on as after an empty response
AfterExceptionSwallowed(ar, e) ==
    [ret |-> APP_SUCCESS,
     ar |-> set_status([ar EXCEPT !.data = Append(@, [method |-> "GET"])], APP_SUCCESS, Msg(""))]
\* lines 289-291: [ret, ar] once request_func has raised e
AfterException(ar, e) == [ret |-> APP_ERROR, ar |-> set_status(ar, APP_ERROR, ConnectError(e))]

\* lines 365-374: the location with its leading slash
LocationOf(p) == IF StartsWith(p.location.v, <<"/">>) THEN p.location.v ELSE <<"/">> \o p.location.v

MethodOf(aid) ==
    CASE aid = "http_get" -> "get" [] aid = "http_post" -> "post" [] aid = "http_put" -> "put"
      [] aid = "http_patch" -> "patch" [] aid = "http_delete" -> "delete"
      [] aid = "http_head" -> "head" [] aid = "http_options" -> "options"
      [] OTHER -> "get"

Upper(method) ==
    CASE method = "get" -> "GET" [] method = "post" -> "POST" [] method = "put" -> "PUT"
      [] method = "patch" -> "PATCH" [] method = "delete" -> "DELETE"
      [] method = "head" -> "HEAD" [] OTHER -> "OPTIONS"

\* lines 340-351 and 360-388 up to the call of _make_http_call: its arguments and
\* the action result on entry
CallOf(me, aid, p) ==
    IF aid = "test_connectivity"
    THEN [ar |-> NewActionResult, endpoint |-> IF Falsy(me.test_path) THEN <<>> ELSE me.test_path.v,
          method |-> "get", headers |-> None, verify |-> Bool(Q("false")), data |-> None]
    ELSE [ar |-> get_headers(NewActionResult, p.headers).ar, endpoint |-> LocationOf(p),
          method |-> MethodOf(aid), headers |-> get_headers(NewActionResult, p.headers).headers,
          verify |-> Get(p, "verify_certificate", Bool(Q("false"))),
          data |-> Get(p, "body", None)]

\* lines 297-309: the action result with the response's data entry and summary
\* (dict(r.headers) of a requests header mapping does not raise, line 302)
Recorded(ar, req, r, parsed) ==
    LET is_json == Contains(ContentType(r), W_json) \/ Contains(ContentType(r), W_javascript)
        resp_data == [method |-> Upper(req.method), location |-> Str(req.url),
                      parsed_response_body |-> parsed,
                      response_body |-> IF is_json THEN parsed ELSE Str(r.text),
                      response_headers |-> r.headers]
    IN  [ar EXCEPT !.data = Append(@, resp_data),
                   !.summary = Dict((Q("status_code") :> IntV(r.status_code))
                                    @@ (Q("reason") :> Str(r.reason)) @@ @.v)]

\* the short cut taken for every action
SkipClassifierAnyAction(aid, r) == r.status_code = 200
\* line 294
SkipClassifier(aid, r) == aid = "http_head" /\ r.status_code = 200

\* lines 293-317: [ret, ar, classified, branch] once the response r has arrived
\* (the progress message of line 312 is not part of the action result)
AfterResponse(ar, aid, req, r) ==
    LET cls == process_response(r)
        b == cls.by
        ar1 == IF cls.ret = APP_ERROR THEN set_status(ar, APP_ERROR, cls.msg) ELSE ar
        ar2 == Recorded(ar1, req, r, cls.parsed)
    IN  IF SkipClassifier(aid, r)
        THEN [ret |-> APP_SUCCESS, ar |-> set_status(ar, APP_SUCCESS, Msg("")), classified |-> 0, branch |-> "none"]
        ELSE IF cls.ret = RAISED
        THEN [ret |-> RAISED, ar |-> ar, classified |-> 1, branch |-> b]
        ELSE IF cls.ret = APP_ERROR
        THEN [ret |-> APP_ERROR, ar |-> ar2, classified |-> 1, branch |-> b]
        ELSE [ret |-> APP_SUCCESS, ar |-> set_status(ar2, APP_SUCCESS, Msg("")), classified |-> 1, branch |-> b]

\* ------------------------------------------------------------------ inputs

U_ok == <<"http:", "/", "/", "a">>
U_slash == <<"http:", "/", "/", "a", "/">>
U_noscheme == <<"a">>
U_nohost == <<"http:", "/", "/">>
U_bracket == <<"http:", "/", "/", "[">>
U_loop == <<"http:", "/", "/", "127.0.0.1", ":9999">>
U_blank == <<"http:", "/", "/", "127.0.0.1 ">>

NoAuth == [auth_token_name |-> Absent, auth_token |-> Absent, username |-> Absent, password |-> Absent]
AuthConfigs ==
    {NoAuth,
     [NoAuth EXCEPT !.auth_token = Str(Q("T"))],
     [NoAuth EXCEPT !.auth_token = Str(Q("T")), !.auth_token_name = Str(Q("X-Tok"))],
     [NoAuth EXCEPT !.username = Str(Q("u"))],
     [NoAuth EXCEPT !.username = Str(Q("u")), !.password = Str(Q("p"))],
     [NoAuth EXCEPT !.auth_token = Str(Q("T")), !.username = Str(Q("u")), !.password = Str(Q("p"))]}

ConfigOf(url, tp, to, a) ==
    [base_url |-> Str(url), test_path |-> tp, timeout |-> to,
     auth_token_name |-> a.auth_token_name, auth_token |-> a.auth_token,
     username |-> a.username, password |-> a.password]

\* the configurations the dispatch is explored under
Configs ==
    {ConfigOf(U_slash, Absent, Absent, a) : a \in AuthConfigs}
    \cup {ConfigOf(U_ok, Str(Q("t")), Str(Q("30")), a) : a \in {NoAuth, [NoAuth EXCEPT !.auth_token = Str(Q("T"))]}}
Answers == {Addr101270, Addr127001}

\* the configurations initialize is explored under
InitConfigs ==
    {ConfigOf(u, tp, to, NoAuth) :
        u \in {U_ok, U_slash, U_noscheme, U_nohost, U_bracket, U_loop, U_blank},
        tp \in {Absent, Str(Q("t")), Str(<<"/", "t">>), NonString},
        to \in {Absent, Str(Q("30")), Str(Q("abc")), NonString}}
InitAnswers == Addresses \cup {Unresolvable}

ActionIds == {"test_connectivity", "http_get", "http_post", "http_put", "http_patch",
              "http_delete", "http_head", "http_options"}
NoParam == [location |-> Absent, body |-> Absent, headers |-> Absent, verify_certificate |-> Absent]
HeaderTexts == {Absent, Str(T_brace), Str(T_emptyobj), Str(T_hdr_default), Str(T_hdr_custom), Str(T_num)}
Params ==
    {[location |-> lbv[1], body |-> lbv[2], headers |-> h, verify_certificate |-> lbv[3]] :
        lbv \in {<<Str(Q("x")), Absent, Absent>>, <<Str(<<"/", "x">>), Str(Q("b")), Bool(Q("true"))>>},
        h \in HeaderTexts}

StatusCodes == {199, 200, 399, 400}
Reason(code) == IF code = 200 THEN Q("OK") ELSE IF code = 400 THEN Q("Bad Request") ELSE Q("")
ContentTypes == {CT_plain, CT_xml, CT_json, CT_js, CT_html, CT_JSON, CT_HTML, CT_XML, CT_xml_json}
Bodies == {T_empty, T_err_msg, T_err_str, T_err_nomsg, T_ok, T_list, T_list_err, T_str, T_str_err,
           T_num, T_true, T_null, T_xml, T_text, T_badhtml}
Responses ==
    {[status_code |-> c, reason |-> Reason(c), headers |-> h, text |-> t] :
        c \in StatusCodes,
        h \in {Dict(<<>>)} \cup {Dict(Q("Content-Type") :> Str(ct)) : ct \in ContentTypes},
        t \in Bodies}

\* the exceptions requests raises: no args, one arg, (errno, text)
TransportErrors == {<<>>, <<Q("Connection refused")>>, <<Q("111"), Q("Connection refused")>>}

\* ------------------------------------------------------------------ the state machine

NoResponse == [k |-> "None"]

Idle ==
    /\ action_id = "none"
    /\ param = NoParam
    /\ action_result = NewActionResult
    /\ ret = "none"
    /\ sent = <<>>
    /\ response = NoResponse
    /\ classified = 0
    /\ branch = "none"

Constructed ==
    /\ pc = "constructed"
    /\ self = NewSelf
    /\ init_ret = "none"
    /\ init_msg = Msg("")
    /\ Idle

Init ==
    /\ config \in Configs
    /\ dns \in Answers
    /\ Constructed

InitWide ==
    /\ config \in InitConfigs
    /\ dns \in InitAnswers
    /\ Constructed

\* initialize(), lines 94-152
Initialize ==
    /\ pc = "constructed"
    /\ self' = initialize(config, dns).self
    /\ init_ret' = initialize(config, dns).ret
    /\ init_msg' = initialize(config, dns).msg
    /\ pc' = IF initialize(config, dns).ret = APP_SUCCESS THEN "ready" ELSE "init_failed"
    /\ UNCHANGED <<config, dns, action_id, param, action_result, ret, sent, response,
                   classified, branch>>

\* handle_action(param) up to the HTTP request: lines 411-443, 340-351, 360-388, 263-288
HandleAction(aid, p) ==
    /\ pc = "ready"
    /\ action_id' = aid
    /\ param' = p
    /\ LET call == CallOf(self, aid, p)
           hs == HeadersOf(self, call.headers)
           req == RequestOf(self, call.endpoint, call.method, hs.headers, call.verify, call.data)
       IN  IF hs.raised
           THEN /\ pc' = "done"
                /\ ret' = RAISED
                /\ action_result' = call.ar
                /\ sent' = sent
           ELSE IF ~Sendable(hs.headers)
           THEN /\ pc' = "done"
                /\ ret' = AfterException(call.ar, <<Q("object has no attribute 'items'")>>).ret
                /\ action_result' = AfterException(call.ar, <<Q("object has no attribute 'items'")>>).ar
                /\ sent' = sent
           ELSE /\ pc' = "waiting"
                /\ ret' = ret
                /\ action_result' = call.ar
                /\ sent' = Append(sent, req)
    /\ UNCHANGED <<config, dns, self, init_ret, init_msg, response, classified, branch>>

\* the request fails at transport level: lines 289-291
TransportFailure(e) ==
    /\ pc = "waiting"
    /\ action_result' = AfterException(action_result, e).ar
    /\ ret' = AfterException(action_result, e).ret
    /\ pc' = "done"
    /\ UNCHANGED <<config, dns, self, init_ret, init_msg, action_id, param, sent, response,
                   classified, branch>>

\* the request returns the response r: lines 293-317
ReceiveResponse(r) ==
    /\ pc = "waiting"
    /\ response' = r
    /\ LET out == AfterResponse(action_result, action_id, sent[Len(sent)], r)
       IN  /\ action_result' = out.ar
           /\ ret' = out.ret
           /\ classified' = classified + out.classified
           /\ branch' = out.branch
    /\ pc' = "done"
    /\ UNCHANGED <<config, dns, self, init_ret, init_msg, action_id, param, sent>>

\* handle_action has returned; the next parameter dictionary starts afresh
Return ==
    /\ pc = "done"
    /\ pc' = "ready"
    /\ action_id' = "none"
    /\ param' = NoParam
    /\ action_result' = NewActionResult
    /\ ret' = "none"
    /\ sent' = <<>>
    /\ response' = NoResponse
    /\ classified' = 0
    /\ branch' = "none"
    /\ UNCHANGED <<config, dns, self, init_ret, init_msg>>

Next ==
    \/ Initialize
    \/ \E p \in Params : \E aid \in ActionIds \ {"test_connectivity"} : HandleAction(aid, p)
    \/ HandleAction("test_connectivity", NoParam)
    \/ \E e \in TransportErrors : TransportFailure(e)
    \/ \E r \in Responses : ReceiveResponse(r)
    \/ Return

Spec == Init /\ [][Next]_vars

SpecInit == InitWide /\ [][Initialize]_vars

\* ------------------------------------------------------------------ properties

VerbIds == ActionIds \ {"test_connectivity"}
\* the running action is a verb operation whose header text is not valid JSON
BadHeaderText == action_id \in VerbIds /\ param.headers # Absent /\ ~JsonLoads(param.headers.v).ok
\* the status code of the response is in [200,400)
StatusIn200To399 == response.status_code \in 200..399
\* the classifier ran on the response of the invocation that has now returned
Classified == pc = "done" /\ classified = 1
\* the body of the classified response fails the parse step of its branch
ParseFails ==
    \/ branch = "xml" /\ ~XmlParse(response.text).ok
    \/ branch = "json" /\ ~JsonLoads(response.text).ok

\* C1: in a verb operation whose header text is not valid JSON, no HTTP request
\* is issued at any point of the invocation, and the operation ends in failure
\* with the 'Failed to parse headers as JSON object' message.
C1_BadHeadersNoRequest ==
    BadHeaderText =>
        /\ sent = <<>>
        /\ pc = "done" =>
            /\ ret = APP_ERROR
            /\ action_result.status = APP_ERROR
            /\ action_result.message.text = "Failed to parse headers as JSON object. error: {}, headers: {}"

C3_ParseFailureAlwaysFails ==
    Classified /\ ParseFails =>
        /\ ret = APP_ERROR
        /\ action_result.status = APP_ERROR
        /\ action_result.message.text =
               IF branch = "xml" THEN "Unable to parse XML response. Error: {0}"
               ELSE "Unable to parse JSON response. Error: {0}"
        /\ Len(action_result.data) = 1
        /\ action_result.data[1].parsed_response_body = None

\* C3 witness: a JSON response with status 200 whose body is no JSON
C3_Witness ==
    /\ Classified
    /\ branch = "json"
    /\ response.status_code = 200
    /\ response.text = T_text
    /\ ret = APP_ERROR

\* the caller's header mapping, when the header text is a JSON object
CallerHeaders ==
    IF param.headers # Absent /\ JsonLoads(param.headers.v).ok /\ JsonLoads(param.headers.v).v.k = "dict"
    THEN JsonLoads(param.headers.v).v.v ELSE <<>>
TokenConfigured == self.token.k = "str" /\ self.token.v # <<>>

\* C4: with a token configured, a request whose caller set the token header goes
\* out with the caller's value for it unchanged; the configured token is put under
\* that name only when the caller did not set it; either way every other caller
\* header is kept and no basic-auth credentials are sent, username or not.
C4_CallerTokenHeaderKept ==
    TokenConfigured =>
        \A i \in 1..Len(sent) :
            /\ sent[i].auth = None
            /\ sent[i].headers.k = "dict"
            /\ DOMAIN sent[i].headers.v = DOMAIN CallerHeaders \cup {self.token_name.v}
            /\ \A h \in DOMAIN CallerHeaders : sent[i].headers.v[h] = CallerHeaders[h]
            /\ self.token_name.v \notin DOMAIN CallerHeaders =>
                   sent[i].headers.v[self.token_name.v] = self.token

\* C4 witness: token and username configured, the caller sets the token header,
\* and the request is out
C4_Witness ==
    /\ TokenConfigured
    /\ self.username = Str(Q("u"))
    /\ self.token_name.v \in DOMAIN CallerHeaders
    /\ Len(sent) = 1
    /\ sent[1].headers.v[self.token_name.v] = Str(Q("mine"))

\* the ways initialize fails before it looks at the address
BaseUrl == Strip(config.base_url.v, "/")
HasSchemeAndHost == ~UrlParseRaises(BaseUrl) /\ UrlScheme(BaseUrl) # <<>> /\ UrlHostname(BaseUrl) # <<>>
TimeoutFine == config.timeout = Absent \/ config.timeout = Str(Q("30"))
TestPathFine == config.test_path = Absent \/ config.test_path.k = "str"
Resolved == gethostbyname(UrlHostname(BaseUrl), dns)
LoopbackMessage == "Accessing 127.0.0.1 is not allowed"

\* C5 as stated: initialize returns an error whenever the hostname resolves to a
\* 127.* address; an unresolvable hostname does not fail the loopback check; and
\* a base URL with scheme and hostname resolving to a non-127 address, the timeout
\* valid or absent, initializes successfully.
C5_InitializeOriginal ==
    pc # "constructed" /\ HasSchemeAndHost =>
        /\ Resolved # Unresolvable /\ StartsWith(Resolved, <<"1", "2", "7", ".">>) => init_ret = APP_ERROR
        /\ Resolved = Unresolvable => init_msg.text # LoopbackMessage
        /\ Resolved # Unresolvable /\ ~StartsWith(Resolved, <<"1", "2", "7", ".">>) /\ TimeoutFine =>
               init_ret = APP_SUCCESS

\* C5 amended: as stated, but the hostname resolving to a non-127 address with a
\* valid or absent timeout initializes successfully when the test path is absent
\* or a string (and so does an unresolvable hostname); a test path that is no
\* string fails initialization.
C5_InitializeAmended ==
    pc # "constructed" /\ HasSchemeAndHost =>
        /\ Resolved # Unresolvable /\ StartsWith(Resolved, <<"1", "2", "7", ".">>) => init_ret = APP_ERROR
        /\ Resolved = Unresolvable => init_msg.text # LoopbackMessage
        /\ ~(Resolved # Unresolvable /\ StartsWith(Resolved, <<"1", "2", "7", ".">>)) /\ TimeoutFine =>
               IF TestPathFine THEN init_ret = APP_SUCCESS /\ pc = "ready"
               ELSE init_ret = APP_ERROR

\* C5 witness: the hostname resolved to 127.8.8.2 and initialize failed on the
\* loopback check
C5_Witness ==
    /\ pc = "init_failed"
    /\ HasSchemeAndHost
    /\ Resolved = Addr127882
    /\ init_ret = APP_ERROR
    /\ init_msg.text = LoopbackMessage

\* the request of the invocation that has now returned with a verdict got a response
Responded == pc = "done" /\ response # NoResponse /\ ret \in {APP_SUCCESS, APP_ERROR}
DataKeys == {"method", "location", "parsed_response_body", "response_body", "response_headers"}
\* exactly one data entry with the five fields, and the summary of the response
MetadataRecorded ==
    /\ Len(action_result.data) = 1
    /\ DOMAIN action_result.data[1] = DataKeys
    /\ action_result.data[1].method = Upper(sent[1].method)
    /\ action_result.data[1].location = Str(sent[1].url)
    /\ action_result.data[1].response_headers = response.headers
    /\ DOMAIN action_result.summary.v = {Q("status_code"), Q("reason")}
    /\ action_result.summary.v[Q("status_code")] = IntV(response.status_code)
    /\ action_result.summary.v[Q("reason")] = Str(response.reason)
NothingRecorded == action_result.data = <<>> /\ DOMAIN action_result.summary.v = {}

TransportFailed == pc = "done" /\ sent # <<>> /\ response = NoResponse

\* C7: an invocation of a verb operation or of the connectivity test issues at
\* most one HTTP request; when that request fails at transport level the operation
\* ends in failure with a message starting 'Error Connecting to server.', the
\* classifier is never invoked, no data entry and no summary is recorded, and no
\* second request follows.
C7_OneRequestAndTransportFailure ==
    /\ Len(sent) <= 1
    /\ pc = "waiting" => Len(sent) = 1
    /\ TransportFailed =>
        /\ ret = APP_ERROR
        /\ action_result.status = APP_ERROR
        /\ action_result.message.text = "Error Connecting to server. Details: {0}"
        /\ classified = 0
        /\ NothingRecorded
        /\ Len(sent) = 1

\* C7 witness: the connectivity test's request failed at transport level
C7_Witness ==
    /\ TransportFailed
    /\ action_id = "test_connectivity"
    /\ ret = APP_ERROR

\* str.lower(), for the letters the content-type values use
LowerChar(c) ==
    CASE c = "J" -> "j" [] c = "S" -> "s" [] c = "O" -> "o" [] c = "N" -> "n"
      [] c = "T" -> "t" [] c = "H" -> "h" [] c = "M" -> "m" [] c = "L" -> "l"
      [] c = "X" -> "x" [] OTHER -> c
Lower(t) == [i \in 1..Len(t) |-> LowerChar(t[i])]

\* C8: the classifier matches the content-type value case-insensitively: the
\* response is routed to the branch its lower-cased content-type selects.
C8_ContentTypeCaseInsensitive ==
    Classified => branch = BranchOf(Lower(ContentType(response)), response.text)

HasXml == Contains(ContentType(response), W_xml)
HasJson == Contains(ContentType(response), W_json) \/ Contains(ContentType(response), W_javascript)
HasHtml == Contains(ContentType(response), W_html)
Declared == HasXml \/ HasJson \/ HasHtml

C10_Detail(j, r) ==
    IF j.k = "dict" /\ Q("error") \in DOMAIN j.v
    THEN IF j.v[Q("error")].k = "dict" /\ Q("message") \in DOMAIN j.v[Q("error")].v
         THEN j.v[Q("error")].v[Q("message")]
         ELSE j.v[Q("error")]
    ELSE Str(EscapeBraces(r.text))

\* C10: a JSON-classified response that parses, with a status code outside
\* [200,400), yields failure with 'Error from server. Status Code: {code} Data
\* from server: {detail}' and the parsed value attached; detail is the nested
\* 'message' of a mapping 'error', else the 'error' value, else the brace-escaped
\* body text, also when the parsed value is no mapping.
C10_JsonErrorDetail ==
    Classified /\ branch = "json" /\ JsonLoads(response.text).ok /\ ~StatusIn200To399 =>
        /\ ret = APP_ERROR
        /\ action_result.status = APP_ERROR
        /\ action_result.message =
               MsgA(ErrorFromServer, <<IntV(response.status_code),
                                       C10_Detail(JsonLoads(response.text).v, response)>>)
        /\ Len(action_result.data) = 1
        /\ action_result.data[1].parsed_response_body = JsonLoads(response.text).v

\* C11: once the HTTP request has returned a response, the dispatch completes
\* with a success or failure status for every content type, status code and
\* body: no exception escapes the classifier or the result assembly, and the
\* action result carries the status that is returned.
C11_DispatchAlwaysCompletes ==
    pc = "done" /\ response # NoResponse =>
        /\ ret \in {APP_SUCCESS, APP_ERROR}
        /\ action_result.status = ret

====
